---- MODULE Spec2Model ----
(***************************************************************************)
(* Model of the news aggregation backend (backend/app.py, generated by     *)
(* setup-project.sh): the scheduler thread run by run_scheduler, one scrape *)
(* pass (scrape_all_feeds / scrape_rss_feed / fetch_article_content), the   *)
(* shared list news_storage and the request handlers that read it.          *)
(*                                                                          *)
(* Strings are modelled by naturals: a link by its number, a published or   *)
(* scraped_at string by its rank in string order.  hash() is Python's       *)
(* per-process salted string hash; it is modelled as injective on the       *)
(* links of the model (collisions of the 64 bit hash are not modelled).     *)
(***************************************************************************)
EXTENDS Integers, Sequences, FiniteSets, TLC

(***************************************************************************)
(* Program constants                                                       *)
(***************************************************************************)
NumFeeds == 7            \* len(RSS_FEEDS)
RSS_FEEDS == 1 .. NumFeeds
EntryLimit == 10         \* feed.entries[:10]
RetentionLimit == 100    \* del news_storage[100:]
PreviewBudget == 50      \* len(news_storage) < 50
PreviewChars == 500      \* response.text[:500]
HOUR == 3600             \* schedule.every().hour
SLEEP == 60              \* time.sleep(60)

(***************************************************************************)
(* Bounds of the model                                                     *)
(***************************************************************************)
MaxTime == 7700          \* seconds of process life that are explored
MaxFaults == 1           \* feed fetches that raise or stall in one run
MaxEdition == 1          \* times the feeds publish new entries
HashSeeds == {0, 3}      \* hash salts the process may start with
FastFetch == 1           \* seconds a normal feed fetch takes
StalledFetch == 4000     \* seconds a stalled feed fetch takes
FreshPerEdition == 8     \* entries each feed replaces per edition
PubEpoch == 5000         \* rank of the oldest feed-supplied date string

(***************************************************************************)
(* The world: what feedparser.parse returns for a feed                     *)
(***************************************************************************)
Min(a, b) == IF a < b THEN a ELSE b

\* number of entries feed f serves
FeedLen(f) == <<10, 10, 12, 10, 3, 10, 10>>[f]

\* feed.feed.title, 0 when the feed has no title
FeedTitle(f) == <<1, 2, 3, 0, 5, 5, 7>>[f]

OwnLink(f, e, i) == 100 * f + FreshPerEdition * e + i

\* entry.link: feed 2 syndicates three entries of feed 1, feed 7 repeats one
EntryLink(f, e, i) ==
    IF f = 2 /\ i <= 3 THEN OwnLink(1, e, 7 + i)
    ELSE IF f = 7 /\ i = 10 THEN OwnLink(7, e, 9)
    ELSE OwnLink(f, e, i)

\* hasattr(entry, 'published'): feed 5 supplies no dates
HasPublished(f, i) == f # 5 /\ ~(f = 3 /\ i = 4)

\* hasattr(entry, 'summary')
HasSummary(f, i) == (f + i) % 3 # 0

\* entry.published: a date string, each feed in its own format
EntryPublished(f, e, i) ==
    PubEpoch + 10 * e + ((EntryLink(f, e, i) % 100) \div 2) + (f % 2) * 3

Entry(f, e, i) ==
    [link |-> EntryLink(f, e, i),
     title |-> EntryLink(f, e, i),
     hasSummary |-> HasSummary(f, i),
     hasPublished |-> HasPublished(f, i),
     published |-> EntryPublished(f, e, i)]

\* feed.entries of feed f at edition e
FeedEntries(f, e) == [i \in 1 .. FeedLen(f) |-> Entry(f, e, i)]

(***************************************************************************)
(* Pure functions of the program                                           *)
(***************************************************************************)
\* an id that keeps only the low digits of the link
HashWeak(seed, link) == 1000 * seed + (link % 100)

\* hash(entry.link) under the salt the process started with
Hash(seed, link) == 1000 * seed + link

\* str(datetime.now())
NowStr(t) == t

EmptyStr == [page |-> 0, len |-> 0, marker |-> FALSE]

\* length of the body of the page behind a link
BodyLen(url) == 400 + 20 * (url % 10)

\* what requests.get meets: a page, no connection, no answer within the
\* timeout, an error status, a body that breaks off, or a body with bytes
\* that do not decode
NetOutcomes ==
    {"up", "down", "timeout", "not_found", "server_error", "truncated",
     "garbled"}

\* requests.get raises on a connection failure, on a timeout and on a body
\* it cannot read to the end; a response with an error status is returned
\* like any other
GetRaises(net) == net \in {"down", "timeout", "truncated"}

\* response.text: the page, the server's error page (a negative page
\* number), or the page with the undecodable bytes replaced
ResponseText(url, net) ==
    IF net = "not_found" THEN [page |-> -404, len |-> 150]
    ELSE IF net = "server_error" THEN [page |-> -500, len |-> 150]
    ELSE IF net = "garbled" THEN [page |-> -url, len |-> BodyLen(url)]
    ELSE [page |-> url, len |-> BodyLen(url)]

\* fetch_article_content(url): response.text[:500] + "..."
fetch_article_content(url, net) ==
    IF GetRaises(net) THEN EmptyStr
    ELSE [page |-> ResponseText(url, net).page,
          len |-> Min(ResponseText(url, net).len, PreviewChars),
          marker |-> TRUE]

Links(s) == {s[i].link : i \in 1 .. Len(s)}
Ids(s) == {s[i].id : i \in 1 .. Len(s)}

\* the article dict built for one entry
Article(seed, f, en, storage, t, net) ==
    [id |-> Hash(seed, en.link),
     title |-> en.title,
     summary |-> IF en.hasSummary THEN en.link ELSE 0,
     content |-> IF Len(storage) < PreviewBudget
                 THEN fetch_article_content(en.link, net) ELSE EmptyStr,
     link |-> en.link,
     published |-> IF en.hasPublished THEN en.published ELSE NowStr(t),
     source |-> FeedTitle(f),
     scraped_at |-> NowStr(t)]

\* a loop that never looks for the link in the store
RECURSIVE ScrapeEntriesAll(_, _, _, _, _, _, _)
ScrapeEntriesAll(seed, f, entries, k, storage, t, net) ==
    IF k > Len(entries) THEN <<>>
    ELSE <<Article(seed, f, entries[k], storage, t, net)>>
         \o ScrapeEntriesAll(seed, f, entries, k + 1, storage, t, net)

\* the loop of scrape_rss_feed over entries k .. Len(entries)
RECURSIVE ScrapeEntries(_, _, _, _, _, _, _)
ScrapeEntries(seed, f, entries, k, storage, t, net) ==
    IF k > Len(entries) THEN <<>>
    ELSE LET rest == ScrapeEntries(seed, f, entries, k + 1, storage, t, net)
         IN IF entries[k].link \in Links(storage) THEN rest
            ELSE <<Article(seed, f, entries[k], storage, t, net)>> \o rest

\* scrape_rss_feed(feed_url): the articles it returns
scrape_rss_feed(seed, f, e, outcome, storage, t, net) ==
    IF outcome = "error" THEN <<>>
    ELSE ScrapeEntries(seed, f,
                       SubSeq(FeedEntries(f, e), 1, Min(EntryLimit, FeedLen(f))),
                       1, storage, t, net)

\* an update that never looks for the id
MergeAppend(storage, article) == Append(storage, article)

\* one iteration of the update loop of scrape_all_feeds
MergeArticle(storage, article) ==
    IF article.id \in Ids(storage)
    THEN LET idx == CHOOSE i \in 1 .. Len(storage) :
                        /\ storage[i].id = article.id
                        /\ \A j \in 1 .. i - 1 : storage[j].id # article.id
         IN [storage EXCEPT ![idx] = article]
    ELSE Append(storage, article)

\* place of s[i] after a stable ascending sort
SortedPlaceAsc(s, i) ==
    Cardinality({j \in 1 .. Len(s) :
                    \/ s[j].published < s[i].published
                    \/ s[j].published = s[i].published /\ j < i}) + 1

\* place of s[i] after an ascending sort that is then reversed
SortedPlaceReversed(s, i) ==
    Cardinality({j \in 1 .. Len(s) :
                    \/ s[j].published > s[i].published
                    \/ s[j].published = s[i].published /\ j > i}) + 1

\* place of s[i] after a stable descending sort by published
SortedPlace(s, i) ==
    Cardinality({j \in 1 .. Len(s) :
                    \/ s[j].published > s[i].published
                    \/ s[j].published = s[i].published /\ j < i}) + 1

\* list.sort(key=lambda x: x['published'], reverse=True): stable, descending
SortDesc(s) ==
    LET place == [i \in 1 .. Len(s) |-> SortedPlace(s, i)] \o <<>>
        from == [r \in 1 .. Len(s) |-> CHOOSE i \in 1 .. Len(s) : place[i] = r] \o <<>>
    IN [r \in 1 .. Len(s) |-> s[from[r]]] \o <<>>

\* a cut one place too late
TruncateLate(s) == SubSeq(s, 1, Min(Len(s), RetentionLimit + 1))

\* del news_storage[100:]
Truncate(s) == SubSeq(s, 1, Min(Len(s), RetentionLimit))

(***************************************************************************)
(* State                                                                   *)
(***************************************************************************)
VARIABLES
    news_storage,   \* the global list
    seed,           \* the hash salt of the process
    now,            \* wall clock, seconds since the process started
    pc,             \* where the scheduler thread is in run_scheduler
    next_run,       \* the schedule job's next_run
    phase,          \* where the running pass is in scrape_all_feeds
    feedIdx,        \* index of the next feed of the pass
    all_articles,   \* local of scrape_all_feeds
    mergeIdx,       \* index of the next article of the update loop
    sortBuf,        \* the items list.sort holds while the list looks empty
    edition,        \* what the feeds currently serve
    faults,         \* faults injected so far
    running,        \* passes started and not finished
    passes,         \* passes started
    passStart,      \* time the latest pass began
    passEnd,        \* time the latest finished pass ended
    fetchLog,       \* the "Scraped n articles from url" lines of the pass
    failedFeeds,    \* feeds whose fetch raised in the pass
    entryLinks,     \* links of the entries the feeds yielded in the pass
    storeAtStart,   \* news_storage when the pass began
    merged,         \* news_storage when the update loop ended
    lastRead,       \* what the latest list request saw of news_storage
    total_articles, \* local of a get_stats request in flight, -1 when none is
    counted,        \* news_storage when that request took its length
    response,       \* the latest response a request handler returned
    appArticles,    \* App state articles: the articles on display
    loading,        \* App state: the loading flag
    searchTerm,     \* App state: the text of the search box
    requests,       \* the news and search requests the App has issued
    inFlight,       \* indices of the issued requests not yet answered
    failed,         \* indices of the issued requests that ended in an error
    overlapped      \* a list refresh and a search were in flight together

vars == <<news_storage, seed, now, pc, next_run, phase, feedIdx, all_articles,
          mergeIdx, sortBuf, edition, faults, running, passes, passStart,
          passEnd, fetchLog, failedFeeds, entryLinks, storeAtStart, merged,
          lastRead, total_articles, counted, response, appArticles,
          loading, searchTerm, requests, inFlight, failed, overlapped>>

passVars == <<phase, feedIdx, all_articles, mergeIdx, sortBuf, fetchLog,
              failedFeeds, entryLinks, storeAtStart, merged>>

frontendVars == <<appArticles, loading, searchTerm, requests, inFlight,
                  failed, overlapped>>

\* the App before it is mounted: useState([]), useState(true), useState('')
FrontendIdle ==
    /\ appArticles = <<>>
    /\ loading = TRUE
    /\ searchTerm = 0
    /\ requests = <<>>
    /\ inFlight = {}
    /\ failed = {}
    /\ overlapped = FALSE

\* no request handler has returned yet
NoResponse == [op |-> "none"]

\* no list request has been served yet
NoRead == [seen |-> FALSE, pre |-> TRUE, sorted |-> TRUE, within |-> TRUE,
           shrunk |-> FALSE]

Init ==
    /\ news_storage = <<>>
    /\ seed \in HashSeeds
    /\ now = 0
    /\ pc = "schedule"
    /\ next_run = 0
    /\ phase = "idle"
    /\ feedIdx = 1
    /\ all_articles = <<>>
    /\ mergeIdx = 1
    /\ sortBuf = <<>>
    /\ edition = 0
    /\ faults = 0
    /\ running = 0
    /\ passes = 0
    /\ passStart = 0
    /\ passEnd = 0
    /\ fetchLog = <<>>
    /\ failedFeeds = {}
    /\ entryLinks = {}
    /\ storeAtStart = <<>>
    /\ merged = <<>>
    /\ lastRead = NoRead
    /\ total_articles = -1
    /\ counted = <<>>
    /\ response = NoResponse
    /\ FrontendIdle

(***************************************************************************)
(* The scheduler thread: run_scheduler                                     *)
(***************************************************************************)
\* a job handed to a thread of its own: the caller goes on at once
JobDetached(ph) == TRUE

\* job() is a plain call: the caller goes on when scrape_all_feeds returned
JobReturned(ph) == ph = "idle"

\* schedule's should_run: now >= next_run
ShouldRun(t, nr) == t >= nr

\* entry of scrape_all_feeds
StartPass ==
    /\ phase' = "scrape"
    /\ feedIdx' = 1
    /\ all_articles' = <<>>
    /\ mergeIdx' = 1
    /\ sortBuf' = <<>>
    /\ running' = running + 1
    /\ passes' = passes + 1
    /\ passStart' = now
    /\ fetchLog' = <<>>
    /\ failedFeeds' = {}
    /\ entryLinks' = {}
    /\ storeAtStart' = news_storage
    /\ merged' = <<>>
    /\ \E e \in {edition, Min(edition + 1, MaxEdition)} : edition' = e

\* schedule.every().hour.do(job)
Schedule ==
    /\ pc = "schedule"
    /\ next_run' = now + HOUR
    /\ pc' = "initial_job"
    /\ UNCHANGED <<news_storage, seed, now, edition, faults, running, passes,
                   passStart, passEnd,
                   lastRead, total_articles, counted, response,
                   frontendVars>>
    /\ UNCHANGED passVars

\* job(): the initial pass
InitialJob ==
    /\ pc = "initial_job"
    /\ StartPass
    /\ pc' = "initial_wait"
    /\ UNCHANGED <<news_storage, seed, now, next_run, faults, passEnd,
                   lastRead, total_articles, counted, response,
                   frontendVars>>

InitialJobReturn ==
    /\ pc = "initial_wait"
    /\ JobReturned(phase)
    /\ pc' = "run_pending"
    /\ UNCHANGED <<news_storage, seed, now, next_run, edition, faults, running,
                   passes, passStart, passEnd,
                   lastRead, total_articles, counted, response,
                   frontendVars>>
    /\ UNCHANGED passVars

\* schedule.run_pending() with the job due: Job.run calls job()
RunPendingDue ==
    /\ pc = "run_pending"
    /\ ShouldRun(now, next_run)
    /\ StartPass
    /\ pc' = "pending_wait"
    /\ UNCHANGED <<news_storage, seed, now, next_run, faults, passEnd,
                   lastRead, total_articles, counted, response,
                   frontendVars>>

\* Job.run after job() returned: _schedule_next_run from the current time
PendingJobReturn ==
    /\ pc = "pending_wait"
    /\ JobReturned(phase)
    /\ next_run' = now + HOUR
    /\ pc' = "sleep"
    /\ UNCHANGED <<news_storage, seed, now, edition, faults, running, passes,
                   passStart, passEnd,
                   lastRead, total_articles, counted, response,
                   frontendVars>>
    /\ UNCHANGED passVars

\* schedule.run_pending() with nothing due, then time.sleep(60)
RunPendingIdle ==
    /\ pc = "run_pending"
    /\ ~ShouldRun(now, next_run)
    /\ now + SLEEP <= MaxTime
    /\ now' = now + SLEEP
    /\ UNCHANGED <<news_storage, seed, pc, next_run, edition, faults, running,
                   passes, passStart, passEnd,
                   lastRead, total_articles, counted, response,
                   frontendVars>>
    /\ UNCHANGED passVars

\* time.sleep(60) after a scheduled job
Sleep ==
    /\ pc = "sleep"
    /\ now + SLEEP <= MaxTime
    /\ now' = now + SLEEP
    /\ pc' = "run_pending"
    /\ UNCHANGED <<news_storage, seed, next_run, edition, faults, running,
                   passes, passStart, passEnd,
                   lastRead, total_articles, counted, response,
                   frontendVars>>
    /\ UNCHANGED passVars

(***************************************************************************)
(* One pass: scrape_all_feeds                                              *)
(***************************************************************************)
\* a failure that ends the loop over the feeds
AfterFeedAbort(f, outcome) ==
    IF outcome = "error" \/ f = NumFeeds THEN "merge" ELSE "scrape"

\* a loop that stops one feed short
AfterFeedShort(f, outcome) == IF f < NumFeeds - 1 THEN "scrape" ELSE "merge"

\* what the pass does after scrape_rss_feed came back for feed f
AfterFeed(f, outcome) == IF f < NumFeeds THEN "scrape" ELSE "merge"

\* articles = scrape_rss_feed(feed_url); all_articles.extend(articles)
ScrapeFeed ==
    /\ phase = "scrape"
    /\ \E outcome \in {"ok", "error"}, took \in {FastFetch, StalledFetch},
          net \in {"up"} :
        /\ (outcome = "error" \/ took = StalledFetch) => faults < MaxFaults
        /\ ~(outcome = "error" /\ took = StalledFetch)
        /\ now + took <= MaxTime
        /\ faults' = IF outcome = "error" \/ took = StalledFetch
                     THEN faults + 1 ELSE faults
        /\ now' = now + took
        /\ LET articles == scrape_rss_feed(seed, feedIdx, edition, outcome,
                                           news_storage, now + took, net)
           IN /\ all_articles' = all_articles \o articles
              /\ fetchLog' = Append(fetchLog,
                                    [feed |-> feedIdx, count |-> Len(articles)])
        /\ failedFeeds' = IF outcome = "error" THEN failedFeeds \cup {feedIdx}
                          ELSE failedFeeds
        /\ entryLinks' = IF outcome = "error" THEN entryLinks
                         ELSE entryLinks \cup
                              {EntryLink(feedIdx, edition, i) :
                                   i \in 1 .. Min(EntryLimit, FeedLen(feedIdx))}
        /\ LET nxt == AfterFeed(feedIdx, outcome)
           IN /\ phase' = IF nxt = "merge" /\ Len(all_articles') = 0
                          THEN "sort" ELSE nxt
              /\ feedIdx' = IF nxt = "scrape" THEN feedIdx + 1 ELSE feedIdx
        /\ merged' = IF phase' = "sort" THEN news_storage ELSE merged
    /\ UNCHANGED <<news_storage, seed, pc, next_run, mergeIdx, sortBuf, edition,
                   running, passes, passStart, passEnd, storeAtStart,
                   lastRead, total_articles, counted, response,
                   frontendVars>>

\* one iteration of: for article in all_articles
MergeStep ==
    /\ phase = "merge"
    /\ mergeIdx <= Len(all_articles)
    /\ news_storage' = MergeArticle(news_storage, all_articles[mergeIdx])
    /\ mergeIdx' = mergeIdx + 1
    /\ phase' = IF mergeIdx = Len(all_articles) THEN "sort" ELSE "merge"
    /\ merged' = IF mergeIdx = Len(all_articles) THEN news_storage' ELSE merged
    /\ UNCHANGED <<seed, now, pc, next_run, feedIdx, all_articles, sortBuf,
                   edition, faults, running, passes, passStart, passEnd,
                   fetchLog, failedFeeds, entryLinks, storeAtStart,
                   lastRead, total_articles, counted, response,
                   frontendVars>>

\* news_storage.sort(...) begins: the list looks empty while the keys are
\* computed and the items are sorted
SortBegin ==
    /\ phase = "sort"
    /\ sortBuf' = news_storage
    /\ news_storage' = <<>>
    /\ phase' = "sorting"
    /\ UNCHANGED <<seed, now, pc, next_run, feedIdx, all_articles, mergeIdx,
                   edition, faults, running, passes, passStart, passEnd,
                   fetchLog, failedFeeds, entryLinks, storeAtStart, merged,
                   lastRead, total_articles, counted, response,
                   frontendVars>>

\* news_storage.sort(...) returns
SortEnd ==
    /\ phase = "sorting"
    /\ news_storage' = SortDesc(sortBuf)
    /\ sortBuf' = <<>>
    /\ phase' = "truncate"
    /\ UNCHANGED <<seed, now, pc, next_run, feedIdx, all_articles, mergeIdx,
                   edition, faults, running, passes, passStart, passEnd,
                   fetchLog, failedFeeds, entryLinks, storeAtStart, merged,
                   lastRead, total_articles, counted, response,
                   frontendVars>>

\* del news_storage[100:], the final print and the return
TruncateAndReturn ==
    /\ phase = "truncate"
    /\ news_storage' = Truncate(news_storage)
    /\ phase' = "idle"
    /\ running' = running - 1
    /\ passEnd' = now
    /\ UNCHANGED <<seed, now, pc, next_run, feedIdx, all_articles, mergeIdx,
                   sortBuf, edition, faults, passes, passStart, fetchLog,
                   failedFeeds, entryLinks, storeAtStart, merged,
                   lastRead, total_articles, counted, response,
                   frontendVars>>

(***************************************************************************)
(* Request handlers                                                        *)
(***************************************************************************)
IsSortedDesc(s) ==
    \A i \in 1 .. Len(s) - 1 : s[i].published >= s[i + 1].published

\* what a list request learns from the copy sorted(news_storage, ...) takes
Observe(view, before) ==
    [seen |-> TRUE,
     pre |-> view = before,
     sorted |-> IsSortedDesc(view),
     within |-> Len(view) <= RetentionLimit,
     shrunk |-> Len(view) < Len(before)]

\* get_news: the handler copies the list in one step, whatever the
\* scheduler thread is doing
Query ==
    /\ lastRead' = Observe(news_storage, storeAtStart)
    /\ UNCHANGED <<news_storage, seed, now, pc, next_run, edition, faults,
                   running, passes, passStart, passEnd, total_articles,
                   counted, response,
                   frontendVars>>
    /\ UNCHANGED passVars

(***************************************************************************)
(* Strings of the request handlers: a natural names a string over Chars,   *)
(* 0 the empty string                                                      *)
(***************************************************************************)
Chars == <<"a", "A", "b", "B">>

\* the characters of the string that n names
RECURSIVE Text(_)
Text(n) ==
    IF n = 0 THEN <<>>
    ELSE Text((n - 1) \div 4) \o <<Chars[((n - 1) % 4) + 1]>>

\* a lower() that leaves every character as it is
LowerKeep(c) == c

\* str.lower() on one character
Lower(c) == IF c = "A" THEN "a" ELSE IF c = "B" THEN "b" ELSE c

LowerStr(str) == [i \in 1 .. Len(str) |-> Lower(str[i])]

\* sub in str
Contains(sub, str) ==
    \E i \in 0 .. Len(str) - Len(sub) : SubSeq(str, i + 1, i + Len(sub)) = sub

\* the fields of an article dict
ArticleFields ==
    {"id", "title", "summary", "content", "link", "published", "source",
     "scraped_at"}

ServerError == [status |-> 500]

\* a search that does not return early on an empty query
search_newsUnguarded(query, storage) ==
    LET filtered_articles ==
            SelectSeq(storage,
                      LAMBDA a :
                          \/ Contains(LowerStr(Text(query)),
                                      LowerStr(Text(a.title)))
                          \/ Contains(LowerStr(Text(query)),
                                      LowerStr(Text(a.summary))))
    IN [status |-> 200, articles |-> filtered_articles,
        total |-> Len(filtered_articles)]

\* search_news: query is request.args.get('q', '')
search_news(query, storage) ==
    IF Text(query) = <<>>
    THEN [status |-> 200, articles |-> <<>>, total |-> 0]
    ELSE LET filtered_articles ==
                 SelectSeq(storage,
                           LAMBDA a :
                               \/ Contains(LowerStr(Text(query)),
                                           LowerStr(Text(a.title)))
                               \/ Contains(LowerStr(Text(query)),
                                           LowerStr(Text(a.summary))))
         IN [status |-> 200, articles |-> filtered_articles,
             total |-> Len(filtered_articles)]

\* x[sort_by] for the keys whose values the model orders as the strings are
KeyOf(a, sort_by) ==
    CASE sort_by = "published" -> a.published
      [] sort_by = "source" -> a.source
      [] sort_by = "scraped_at" -> a.scraped_at
      [] sort_by = "link" -> a.link
      [] sort_by = "id" -> a.id

\* sorted(storage, key=lambda x: x[sort_by], reverse=reverse): stable, and
\* with reverse the equal keys keep their order as well
Sorted(storage, sort_by, reverse) ==
    LET key == [i \in 1 .. Len(storage) |-> KeyOf(storage[i], sort_by)] \o <<>>
        place == [i \in 1 .. Len(storage) |->
                     Cardinality({j \in 1 .. Len(storage) :
                         \/ IF reverse THEN key[j] > key[i]
                            ELSE key[j] < key[i]
                         \/ key[j] = key[i] /\ j < i}) + 1] \o <<>>
    IN [r \in 1 .. Len(storage) |->
           storage[CHOOSE i \in 1 .. Len(storage) : place[i] = r]] \o <<>>

\* a sort of the list itself, as list.sort does
StorageSortedInPlace(storage, sort_by, reverse) ==
    IF sort_by \in ArticleFields THEN Sorted(storage, sort_by, reverse)
    ELSE storage

\* news_storage after sorted(news_storage, ...): sorted builds a new list
StorageAfterSorted(storage, sort_by, reverse) == storage

\* a slice that starts at page * per_page
PageSliceNext(sorted_news, page, per_page) ==
    SubSeq(sorted_news, page * per_page + 1,
           Min(page * per_page + per_page, Len(sorted_news)))

\* sorted_news[start_idx:end_idx]
PageSlice(sorted_news, page, per_page) ==
    LET start_idx == (page - 1) * per_page
        end_idx == start_idx + per_page
    IN SubSeq(sorted_news, start_idx + 1, Min(end_idx, Len(sorted_news)))

\* get_news: the key function raises KeyError on the first article when
\* sort_by is no field, the page count divides by per_page
get_news(storage, sort_by, order, page, per_page) ==
    IF storage # <<>> /\ sort_by \notin ArticleFields THEN ServerError
    ELSE IF per_page = 0 THEN ServerError
    ELSE LET sorted_news == Sorted(storage, sort_by, order = "desc")
         IN [status |-> 200,
             articles |-> PageSlice(sorted_news, page, per_page),
             total |-> Len(sorted_news),
             page |-> page,
             per_page |-> per_page,
             total_pages |-> (Len(sorted_news) + per_page - 1) \div per_page]

Sources(storage) == {storage[i].source : i \in 1 .. Len(storage)}

\* a list of the source of every article, with no set() in between
SourceListsAll(storage) == {[i \in 1 .. Len(storage) |-> storage[i].source]}

\* list(set(article['source'] for article in storage)): each value once,
\* in an order the program does not control
SourceLists(storage) ==
    {l \in [1 .. Cardinality(Sources(storage)) -> Sources(storage)] :
        \A i, j \in 1 .. Len(l) : l[i] = l[j] => i = j}

(***************************************************************************)
(* The request handlers with their responses                               *)
(***************************************************************************)
MaxQuery == 6            \* search queries: the strings named 0 .. MaxQuery
MaxPage == 2             \* pages a list request asks for
SortKeys == {"published", "source", "bogus"}
Orders == {"desc", "asc"}
PerPages == {0, 1, 5}

\* GET /api/news/search?q=...
SearchNews ==
    /\ pc = "api"
    /\ pc' = "served"
    /\ \E q \in 0 .. MaxQuery :
          response' = [op |-> "search", q |-> q, view |-> news_storage,
                       result |-> search_news(q, news_storage)]
    /\ UNCHANGED <<news_storage, seed, now, next_run, edition, faults,
                   running, passes, passStart, passEnd, lastRead,
                   total_articles, counted>>
    /\ UNCHANGED passVars
    /\ UNCHANGED frontendVars

\* GET /api/news?sort=...&order=...&page=...&per_page=...
GetNews ==
    /\ pc = "api"
    /\ pc' = "served"
    /\ \E sort_by \in SortKeys, order \in Orders, page \in 1 .. MaxPage,
          per_page \in PerPages :
          /\ response' = [op |-> "list", sort_by |-> sort_by, order |-> order,
                          page |-> page, per_page |-> per_page,
                          view |-> news_storage,
                          result |-> get_news(news_storage, sort_by, order,
                                              page, per_page)]
          /\ news_storage' = StorageAfterSorted(news_storage, sort_by,
                                                order = "desc")
    /\ UNCHANGED <<seed, now, next_run, edition, faults, running, passes,
                   passStart, passEnd, lastRead, total_articles, counted>>
    /\ UNCHANGED passVars
    /\ UNCHANGED frontendVars

\* GET /api/sources
GetSources ==
    /\ pc = "api"
    /\ pc' = "served"
    /\ \E sources \in SourceLists(news_storage) :
          response' = [op |-> "sources", view |-> news_storage,
                       quiescent |-> phase = "idle",
                       result |-> [status |-> 200, sources |-> sources]]
    /\ UNCHANGED <<news_storage, seed, now, next_run, edition, faults,
                   running, passes, passStart, passEnd, lastRead,
                   total_articles, counted>>
    /\ UNCHANGED passVars
    /\ UNCHANGED frontendVars

\* get_stats: total_articles = len(news_storage)
GetStatsCount ==
    /\ pc = "api"
    /\ pc' = "stats"
    /\ total_articles' = Len(news_storage)
    /\ counted' = news_storage
    /\ UNCHANGED <<news_storage, seed, now, next_run, edition, faults,
                   running, passes, passStart, passEnd, lastRead, response,
                   frontendVars>>
    /\ UNCHANGED passVars

\* get_stats: sources = list(set(...)) and the response
GetStatsReturn ==
    /\ pc = "stats"
    /\ pc' = "served"
    /\ \E sources \in SourceLists(news_storage) :
          response' = [op |-> "stats", counted |-> counted,
                       view |-> news_storage,
                       quiescent |-> phase = "idle" /\ counted = news_storage,
                       result |-> [status |-> 200,
                                   total_articles |-> total_articles,
                                   total_sources |-> Len(sources),
                                   sources |-> sources]]
    /\ total_articles' = -1
    /\ counted' = <<>>
    /\ UNCHANGED <<news_storage, seed, now, next_run, edition, faults,
                   running, passes, passStart, passEnd, lastRead>>
    /\ UNCHANGED passVars
    /\ UNCHANGED frontendVars

(***************************************************************************)
(* Specifications                                                          *)
(***************************************************************************)
Next ==
    \/ Schedule
    \/ InitialJob
    \/ InitialJobReturn
    \/ RunPendingDue
    \/ PendingJobReturn
    \/ RunPendingIdle
    \/ Sleep
    \/ ScrapeFeed
    \/ MergeStep
    \/ SortBegin
    \/ SortEnd
    \/ TruncateAndReturn

\* the scheduler thread alone
Spec == Init /\ [][Next]_vars

NextQuery ==
    \/ Next
    \/ Query

\* the scheduler thread and the request threads
SpecQuery == Init /\ [][NextQuery]_vars

(***************************************************************************)
(* The update of the store on its own: a store the program can hold, one   *)
(* article to merge, and the update run on that article a second time      *)
(***************************************************************************)
MaxTail == 2             \* articles of the drawn store that are not filler
MaxTestLink == 3         \* links of the drawn articles
MaxTestPub == 2          \* published ranks of the drawn articles

TestArticle(sd, link, pub) ==
    [id |-> Hash(sd, link), title |-> link, summary |-> 0, content |-> EmptyStr,
     link |-> link, published |-> pub, source |-> 1, scraped_at |-> 0]

TestArticles(sd) ==
    {TestArticle(sd, l, p) : l \in 1 .. MaxTestLink, p \in 1 .. MaxTestPub}

\* n articles that sort before every drawn article
Filler(sd, n) == [i \in 1 .. n |-> TestArticle(sd, 900 + i, MaxTestPub + 1)]

\* sorted, duplicate-free sequences of drawn articles
Tails(sd) ==
    {t \in UNION {[1 .. k -> TestArticles(sd)] : k \in 0 .. MaxTail} :
        /\ IsSortedDesc(t)
        /\ \A i, j \in 1 .. Len(t) : t[i].link = t[j].link => i = j}

InitMerge ==
    /\ seed \in HashSeeds
    /\ \E n \in {0, RetentionLimit - MaxTail} :
          \E t \in Tails(seed) :
              /\ n + Len(t) <= RetentionLimit
              /\ news_storage = Filler(seed, n) \o t
    /\ \E a \in TestArticles(seed) : all_articles = <<a>>
    /\ storeAtStart = news_storage
    /\ phase = "merge"
    /\ mergeIdx = 1
    /\ pc = "merge_once"
    /\ now = 0
    /\ next_run = 0
    /\ feedIdx = NumFeeds
    /\ sortBuf = <<>>
    /\ edition = 0
    /\ faults = 0
    /\ running = 1
    /\ passes = 1
    /\ passStart = 0
    /\ passEnd = 0
    /\ fetchLog = <<>>
    /\ failedFeeds = {}
    /\ entryLinks = {}
    /\ merged = <<>>
    /\ lastRead = NoRead
    /\ total_articles = -1
    /\ counted = <<>>
    /\ response = NoResponse
    /\ FrontendIdle

\* the same article is handed to the update once more
MergeAgain ==
    /\ pc = "merge_once"
    /\ phase = "idle"
    /\ pc' = "merge_twice"
    /\ phase' = "merge"
    /\ mergeIdx' = 1
    /\ storeAtStart' = news_storage
    /\ running' = running + 1
    /\ UNCHANGED <<news_storage, seed, now, next_run, feedIdx, all_articles,
                   sortBuf, edition, faults, passes, passStart, passEnd,
                   fetchLog, failedFeeds, entryLinks, merged,
                   lastRead, total_articles, counted, response,
                   frontendVars>>

NextMerge ==
    \/ MergeStep
    \/ SortBegin
    \/ SortEnd
    \/ TruncateAndReturn
    \/ MergeAgain

SpecMerge == InitMerge /\ [][NextMerge]_vars

(***************************************************************************)
(* The previewer on its own: fetch_article_content called for a link under *)
(* each outcome of the request                                             *)
(***************************************************************************)
MaxPreviewUrl == 20      \* links the previewer is called for

PreviewUrls == 101 .. 100 + MaxPreviewUrl

InitPreview ==
    /\ news_storage = <<>>
    /\ seed \in HashSeeds
    /\ now = 0
    /\ pc = "preview"
    /\ next_run = 0
    /\ phase = "idle"
    /\ feedIdx = 1
    /\ all_articles = <<>>
    /\ mergeIdx = 1
    /\ sortBuf = <<>>
    /\ edition = 0
    /\ faults = 0
    /\ running = 0
    /\ passes = 0
    /\ passStart = 0
    /\ passEnd = 0
    /\ fetchLog = <<>>
    /\ failedFeeds = {}
    /\ entryLinks = {}
    /\ storeAtStart = <<>>
    /\ merged = <<>>
    /\ lastRead = NoRead
    /\ total_articles = -1
    /\ counted = <<>>
    /\ response = NoResponse
    /\ FrontendIdle

\* content = fetch_article_content(entry.link)
CallPreview ==
    /\ pc = "preview"
    /\ \E url \in PreviewUrls, net \in NetOutcomes :
          response' = [op |-> "preview", url |-> url, net |-> net,
                       content |-> fetch_article_content(url, net)]
    /\ UNCHANGED <<news_storage, seed, now, pc, next_run, edition, faults,
                   running, passes, passStart, passEnd, lastRead,
                   total_articles, counted>>
    /\ UNCHANGED passVars
    /\ UNCHANGED frontendVars

NextPreview == CallPreview

SpecPreview == InitPreview /\ [][NextPreview]_vars

(***************************************************************************)
(* The request handlers on their own: a store the program can hold and one *)
(* request served from it, while no pass runs or while the update of       *)
(* scrape_all_feeds runs on one article                                    *)
(***************************************************************************)
MaxApiLink == 4          \* links of the drawn articles
PadSizes == {0, 8}

ApiArticle(sd, link, v) ==
    [id |-> Hash(sd, link),
     title |-> 6 * link + v,
     summary |-> IF v = 0 THEN 0 ELSE link + 2,
     content |-> EmptyStr,
     link |-> link,
     published |-> 2 * link + v,
     source |-> <<1, 1, 2, 3>>[((link - 1 + v) % 4) + 1],
     scraped_at |-> v]

\* n articles that sort before every drawn article
ApiPad(sd, n) ==
    [i \in 1 .. n |->
        [id |-> Hash(sd, 900 + i), title |-> 40 + i, summary |-> 0,
         content |-> EmptyStr, link |-> 900 + i, published |-> 50 - i,
         source |-> 1, scraped_at |-> 0]]

\* the stores of drawn articles: sorted, no link twice
ApiTails(sd) ==
    {t \in UNION {[1 .. k -> {ApiArticle(sd, l, 0) : l \in 1 .. MaxApiLink}] :
                      k \in 0 .. MaxApiLink} :
        \A i \in 1 .. Len(t) - 1 : t[i].published > t[i + 1].published}

InitApi ==
    /\ seed \in HashSeeds
    /\ \E n \in PadSizes : \E t \in ApiTails(seed) :
          news_storage = ApiPad(seed, n) \o t
    /\ \/ phase = "idle" /\ all_articles = <<>> /\ running = 0
       \/ /\ phase = "merge"
          /\ running = 1
          /\ \E l \in 1 .. MaxApiLink, v \in 0 .. 1 :
                all_articles = <<ApiArticle(seed, l, v)>>
    /\ storeAtStart = news_storage
    /\ mergeIdx = 1
    /\ pc = "api"
    /\ now = 0
    /\ next_run = 0
    /\ feedIdx = NumFeeds
    /\ sortBuf = <<>>
    /\ edition = 0
    /\ faults = 0
    /\ passes = 1
    /\ passStart = 0
    /\ passEnd = 0
    /\ fetchLog = <<>>
    /\ failedFeeds = {}
    /\ entryLinks = {}
    /\ merged = <<>>
    /\ lastRead = NoRead
    /\ total_articles = -1
    /\ counted = <<>>
    /\ response = NoResponse
    /\ FrontendIdle

NextApi ==
    \/ SearchNews
    \/ GetNews
    \/ GetSources
    \/ GetStatsCount
    \/ GetStatsReturn
    \/ MergeStep
    \/ SortBegin
    \/ SortEnd
    \/ TruncateAndReturn

SpecApi == InitApi /\ [][NextApi]_vars

(***************************************************************************)
(* The frontend: the App component of App.js in front of a backend whose   *)
(* store does not change, its list refreshes and searches and the arrival  *)
(* of their responses in any order                                         *)
(***************************************************************************)
MaxIssued == 3           \* news and search requests the App issues
MaxTerm == 3             \* search terms typed: the strings named 0 .. MaxTerm

\* mockArticles of mockData.js: three articles with ids 1, 2, 3 that no
\* backend response holds (negative links, no scraped_at)
MockArticles ==
    [i \in 1 .. 3 |->
        [id |-> i, title |-> i, summary |-> i, content |-> EmptyStr,
         link |-> -i, published |-> 4 - i, source |-> -i]]

\* !searchTerm.trim()
Blank(term) == Text(term) = <<>>

\* what the backend answers to a request of the App
ServerArticles(req, storage) ==
    IF req.kind = "news"
    THEN get_news(storage, "published", "desc", 1, 50).articles
    ELSE search_news(req.q, storage).articles

\* setLoading(true) and axios.get(...), up to the await
IssueRequest(kind, q) ==
    /\ Len(requests) < MaxIssued
    /\ loading' = TRUE
    /\ requests' = Append(requests, [kind |-> kind, q |-> q])
    /\ inFlight' = inFlight \cup {Len(requests) + 1}
    /\ overlapped' = (overlapped \/ \E i \in inFlight : requests[i].kind # kind)
    /\ UNCHANGED <<appArticles, failed>>

\* fetchData, up to the await
fetchData == IssueRequest("news", 0)

backendVars == <<news_storage, seed, now, next_run, edition, faults, running,
                 passes, passStart, passEnd, lastRead, total_articles,
                 counted, response>>

\* useEffect(..., []): the first fetchData; the timer is set
Mount ==
    /\ pc = "unmounted"
    /\ pc' = "mounted"
    /\ fetchData
    /\ UNCHANGED searchTerm
    /\ UNCHANGED backendVars
    /\ UNCHANGED passVars

\* setInterval(fetchData, 600000) fires
TimerRefresh ==
    /\ pc = "mounted"
    /\ fetchData
    /\ UNCHANGED <<pc, searchTerm>>
    /\ UNCHANGED backendVars
    /\ UNCHANGED passVars

\* onChange of the search box: setSearchTerm(e.target.value)
TypeSearchTerm ==
    /\ pc = "mounted"
    /\ \E term \in 0 .. MaxTerm : term # searchTerm /\ searchTerm' = term
    /\ UNCHANGED <<pc, appArticles, loading, requests, inFlight, failed,
                   overlapped>>
    /\ UNCHANGED backendVars
    /\ UNCHANGED passVars

\* handleSearch, up to the await
handleSearch ==
    /\ pc = "mounted"
    /\ IF Blank(searchTerm) THEN fetchData
       ELSE IssueRequest("search", searchTerm)
    /\ UNCHANGED <<pc, searchTerm>>
    /\ UNCHANGED backendVars
    /\ UNCHANGED passVars

\* a response or an error arrives and the rest of fetchData or handleSearch
\* runs: setArticles, the catch, the finally; the build is a production
\* build or not
ResponseArrives ==
    /\ pc = "mounted"
    /\ \E i \in inFlight, outcome \in {"ok", "error"}, production \in BOOLEAN :
          /\ inFlight' = inFlight \ {i}
          /\ loading' = FALSE
          /\ IF outcome = "ok"
             THEN /\ appArticles' = ServerArticles(requests[i], news_storage)
                  /\ failed' = failed
             ELSE /\ failed' = failed \cup {i}
                  /\ appArticles' =
                         IF requests[i].kind = "news" /\ ~production
                         THEN MockArticles ELSE appArticles
    /\ UNCHANGED <<pc, searchTerm, requests, overlapped>>
    /\ UNCHANGED backendVars
    /\ UNCHANGED passVars

InitFrontend ==
    /\ seed \in HashSeeds
    /\ news_storage \in ApiTails(seed)
    /\ pc = "unmounted"
    /\ now = 0
    /\ next_run = 0
    /\ phase = "idle"
    /\ feedIdx = 1
    /\ all_articles = <<>>
    /\ mergeIdx = 1
    /\ sortBuf = <<>>
    /\ edition = 0
    /\ faults = 0
    /\ running = 0
    /\ passes = 1
    /\ passStart = 0
    /\ passEnd = 0
    /\ fetchLog = <<>>
    /\ failedFeeds = {}
    /\ entryLinks = {}
    /\ storeAtStart = news_storage
    /\ merged = <<>>
    /\ lastRead = NoRead
    /\ total_articles = -1
    /\ counted = <<>>
    /\ response = NoResponse
    /\ FrontendIdle

NextFrontend ==
    \/ Mount
    \/ TimerRefresh
    \/ TypeSearchTerm
    \/ handleSearch
    \/ ResponseArrives

SpecFrontend == InitFrontend /\ [][NextFrontend]_vars

(***************************************************************************)
(* Properties                                                              *)
(***************************************************************************)
\* the update of news_storage is in progress
Merging == phase \in {"merge", "sort", "sorting", "truncate"}

\* scrape_all_feeds has just returned to job()
PassDone == phase = "idle" /\ pc \in {"initial_wait", "pending_wait"}

Range(s) == {s[i] : i \in 1 .. Len(s)}

\* links the feeds yielded in the pass that the store did not hold before it
NewLinks == entryLinks \ Links(storeAtStart)

\* C1: whenever no update of the store is in progress, and so after every
\* completed merge, the store holds at most 100 articles.
BoundedRetention == ~Merging => Len(news_storage) <= RetentionLimit

\* a pass ended whose update loop left more than 100 articles
TruncationHappened ==
    /\ PassDone
    /\ Len(merged) > RetentionLimit
    /\ Len(news_storage) = RetentionLimit

\* C2: every list request sees the store as it was before the pass or as
\* the pass leaves it: never unsorted, never above 100 articles, never with
\* fewer articles than before the pass.
AtomicReads ==
    lastRead.seen =>
        \/ lastRead.pre
        \/ lastRead.sorted /\ lastRead.within /\ ~lastRead.shrunk

\* C3: whenever no update of the store is in progress, no two articles of
\* the store have the same id.
Dedup ==
    ~Merging => Cardinality(Ids(news_storage)) = Len(news_storage)

\* a pass ended in which two feeds yielded the same link
SharedLinkMerged ==
    /\ PassDone
    /\ \E i, j \in 1 .. Len(all_articles) :
          /\ i < j
          /\ all_articles[i].link = all_articles[j].link
          /\ all_articles[i].source # all_articles[j].source

\* C4: a feed whose fetch raised is reported with zero articles, all
\* configured feeds are fetched all the same, and every new link of the
\* other feeds is in the store when the update loop has ended.
ErrorIsolation ==
    (passes > 0 /\ phase # "scrape") =>
        /\ Len(fetchLog) = NumFeeds
        /\ \A k \in 1 .. Len(fetchLog) :
              fetchLog[k].feed \in failedFeeds => fetchLog[k].count = 0
        /\ phase = "sort" => NewLinks \subseteq Links(news_storage)

\* a pass ended in which one feed failed and others brought new articles
FailedFeedIsolated ==
    /\ PassDone
    /\ failedFeeds # {}
    /\ NewLinks # {}
    /\ Len(news_storage) > Len(storeAtStart)

\* C5: at most one pass is running at any time.
NoOverlap == running <= 1

\* a pass is still running when the job is due again
PassOutlastsInterval ==
    /\ running = 1
    /\ phase # "idle"
    /\ now >= passStart + HOUR
    /\ ShouldRun(now, next_run)

\* C6: no time passes before the first pass; a pass fetches the configured
\* feeds once each in their order, leaves the store alone until all are
\* fetched, and ends idle with no pass running.
PassProtocol ==
    /\ passes = 0 => now = 0 /\ pc \in {"schedule", "initial_job"}
    /\ passes > 0 =>
          /\ \A k \in 1 .. Len(fetchLog) : fetchLog[k].feed = k
          /\ Len(fetchLog) <= NumFeeds
          /\ phase = "scrape" =>
                Len(fetchLog) = feedIdx - 1 /\ news_storage = storeAtStart
          /\ phase # "scrape" => Len(fetchLog) = NumFeeds
          /\ phase = "idle" => running = 0

\* the second pass has ended
SecondPassDone == PassDone /\ passes = 2 /\ Len(fetchLog) = NumFeeds

\* C7: at a poll of the idle scheduler the job is due exactly when an hour
\* has passed since the latest pass began.
PassInterval ==
    (pc = "run_pending" /\ passes > 0) =>
        (ShouldRun(now, next_run) <=> now >= passStart + HOUR)

\* C8: a pass over a store with room for them adds one article for each
\* distinct new link, however many feeds yielded the link.
CrossFeedOverlap ==
    (PassDone /\ Len(storeAtStart) + Cardinality(NewLinks) <= RetentionLimit) =>
        /\ Len(news_storage) = Len(storeAtStart) + Cardinality(NewLinks)
        /\ Links(news_storage) = Links(storeAtStart) \cup NewLinks

\* a pass ended that had room and in which feeds shared links
OverlapCounted ==
    /\ PassDone
    /\ Len(storeAtStart) + Cardinality(NewLinks) <= RetentionLimit
    /\ Len(all_articles) > Cardinality(Links(all_articles))
    /\ Len(news_storage) > Len(storeAtStart)

\* C9: when the update has run a second time on the same articles, the
\* store is what the first run left: same size, same articles, same order.
MergeIdempotent ==
    (pc = "merge_twice" /\ phase = "idle") => news_storage = storeAtStart

\* the second run ended, and its article was in the store when it began
MergedTwice ==
    /\ pc = "merge_twice"
    /\ phase = "idle"
    /\ all_articles[1] \in Range(storeAtStart)
    /\ Len(news_storage) = RetentionLimit

\* C10: after a pass the store is in descending published order, holds
\* min(100, size) articles of the merged collection, and no evicted
\* article has a published value above that of a retained one.
SortAndTruncate ==
    PassDone =>
        /\ IsSortedDesc(news_storage)
        /\ Len(news_storage) = Min(Len(merged), RetentionLimit)
        /\ Range(news_storage) \subseteq Range(merged)
        /\ \A e \in Range(merged) \ Range(news_storage) :
              \A r \in Range(news_storage) : e.published <= r.published

\* a pass ended that had to reorder and to evict
SortedAndEvicted ==
    /\ PassDone
    /\ ~IsSortedDesc(merged)
    /\ Range(merged) \ Range(news_storage) # {}

\* C11: in a pass only the first 50 candidate articles carry a fetched
\* preview; every later candidate of the pass has empty content.
PreviewWithinBudget ==
    \A k \in 1 .. Len(all_articles) :
        k > PreviewBudget => all_articles[k].content = EmptyStr

\* C12: a feed entry whose link the store held when the pass began yields
\* no candidate, the stored article goes through the update loop unchanged,
\* and it is missing after the pass only if the pass had to truncate.
KnownLinksSkipped ==
    PassDone =>
        \A i \in 1 .. Len(storeAtStart) :
            storeAtStart[i].link \in entryLinks =>
                /\ \A k \in 1 .. Len(all_articles) :
                      all_articles[k].link # storeAtStart[i].link
                /\ storeAtStart[i] \in Range(merged)
                /\ storeAtStart[i] \notin Range(news_storage) =>
                      Len(merged) > RetentionLimit

\* a later pass ended in which the feeds served stored links next to new ones
KnownLinkKept ==
    /\ PassDone
    /\ passes = 2
    /\ all_articles # <<>>
    /\ \E i \in 1 .. Len(storeAtStart) :
          /\ storeAtStart[i].link \in entryLinks
          /\ storeAtStart[i] \in Range(news_storage)

\* C19: the previewer returns the first 500 characters of the page and the
\* marker when the request succeeded, and the empty string on every failure
\* of the request: no connection, timeout, error status, malformed body.
PreviewFailureIsolated ==
    response.op = "preview" =>
        IF response.net = "up"
        THEN response.content =
                 [page |-> response.url,
                  len |-> Min(BodyLen(response.url), PreviewChars),
                  marker |-> TRUE]
        ELSE response.content = EmptyStr

Upper(c) == IF c = "a" THEN "A" ELSE IF c = "b" THEN "B" ELSE c

\* q occurs in str when the case of the letters is ignored
Matches(q, str) ==
    \E off \in 0 .. Len(str) - Len(q) :
        \A k \in 1 .. Len(q) : Upper(str[off + k]) = Upper(q[k])

ArticleMatches(q, a) ==
    Matches(Text(q), Text(a.title)) \/ Matches(Text(q), Text(a.summary))

\* C13: a search with a non-empty query returns exactly the stored articles
\* whose title or summary contains the query, case ignored, in the order of
\* the store, and total is their number.
SearchCorrect ==
    (response.op = "search" /\ response.q # 0) =>
        /\ response.result.status = 200
        /\ response.result.articles =
               SelectSeq(response.view,
                         LAMBDA a : ArticleMatches(response.q, a))
        /\ response.result.total = Len(response.result.articles)

\* a search found an article only because the case is ignored, and left
\* another article out
SearchFoundByCase ==
    /\ response.op = "search"
    /\ response.q # 0
    /\ Len(response.result.articles) < Len(response.view)
    /\ \E i \in 1 .. Len(response.result.articles) :
          /\ ~Contains(Text(response.q),
                       Text(response.result.articles[i].title))
          /\ ~Contains(Text(response.q),
                       Text(response.result.articles[i].summary))

\* C14: a search with an empty or missing query returns no article and
\* total 0, whatever the store holds.
EmptySearchEmpty ==
    (response.op = "search" /\ response.q = 0) =>
        response.result = [status |-> 200, articles |-> <<>>, total |-> 0]

\* an empty query was answered from a store that holds articles
EmptySearchOnStore ==
    /\ response.op = "search"
    /\ response.q = 0
    /\ response.view # <<>>

\* s is storage reordered by the key, descending or ascending
IsSortedBy(s, storage, sort_by, order) ==
    /\ Len(s) = Len(storage)
    /\ Range(s) = Range(storage)
    /\ \A i \in 1 .. Len(s) - 1 :
          IF order = "desc"
          THEN KeyOf(s[i], sort_by) >= KeyOf(s[i + 1], sort_by)
          ELSE KeyOf(s[i], sort_by) <= KeyOf(s[i + 1], sort_by)

\* C15: a list request for page p >= 1 of n >= 1 articles by a key that is
\* a field returns the elements (p-1)*n up to p*n of the store sorted by
\* that key in that order, the store size as total, and ceil(total/n) as
\* total_pages.
PaginationCorrect ==
    (/\ response.op = "list"
     /\ response.sort_by \in ArticleFields
     /\ response.page >= 1
     /\ response.per_page >= 1) =>
        LET p == response.page
            n == response.per_page
            res == response.result
            S == Sorted(response.view, response.sort_by,
                        response.order = "desc")
            first == (p - 1) * n
            count == IF first >= Len(S) THEN 0 ELSE Min(n, Len(S) - first)
        IN /\ res.status = 200
           /\ IsSortedBy(S, response.view, response.sort_by, response.order)
           /\ Len(res.articles) = count
           /\ \A k \in 1 .. count : res.articles[k] = S[first + k]
           /\ res.total = Len(response.view)
           /\ res.total_pages * n >= res.total
           /\ (res.total_pages - 1) * n < res.total
           /\ res.page = p
           /\ res.per_page = n

\* with 12 articles, page 2 of 5 by the default sort was returned: the
\* articles ranked 6 to 10
PageTwoOfFive ==
    /\ response.op = "list"
    /\ response.sort_by = "published"
    /\ response.order = "desc"
    /\ response.page = 2
    /\ response.per_page = 5
    /\ Len(response.view) = 12
    /\ response.result.status = 200
    /\ response.result.articles = SubSeq(response.view, 6, 10)
    /\ response.result.total_pages = 3

\* C16: a list request whose sort key is no field of an article is
\* answered with an error, whatever the store holds.
UnknownSortKeyRejected ==
    (response.op = "list" /\ response.sort_by \notin ArticleFields) =>
        response.result.status # 200

\* the values of a stats response are those of the store s
StatsOf(res, s) ==
    /\ res.total_articles = Len(s)
    /\ res.total_sources = Cardinality(Sources(s))
    /\ Range(res.sources) = Sources(s)

\* C17: the values of a stats response are all those of one store state,
\* the one the handler counted or the one it took the sources from.
ConsistentStats ==
    response.op = "stats" =>
        \/ StatsOf(response.result, response.counted)
        \/ StatsOf(response.result, response.view)

\* C18: on a store that no update touches, stats returns the number of
\* articles and the number of distinct sources, and stats and sources
\* return each distinct source once.
StatsValues ==
    (response.op \in {"stats", "sources"} /\ response.quiescent) =>
        /\ response.result.status = 200
        /\ Range(response.result.sources) = Sources(response.view)
        /\ Len(response.result.sources) = Cardinality(Sources(response.view))
        /\ response.op = "stats" =>
              /\ response.result.total_articles = Len(response.view)
              /\ response.result.total_sources =
                     Cardinality(Sources(response.view))

\* stats was returned for four articles of three sources, one of them twice
StatsFourThree ==
    /\ response.op = "stats"
    /\ response.quiescent
    /\ Len(response.view) = 4
    /\ \E i, j \in 1 .. 4 :
          i # j /\ response.view[i].source = response.view[j].source
    /\ response.result.total_articles = 4
    /\ response.result.total_sources = 3

\* C20: the store changes only in a step of the update of scrape_all_feeds,
\* never in a step in which a request handler runs or returns.
ReadOnlyQueries ==
    [][news_storage' # news_storage =>
           /\ Merging
           /\ pc' = pc
           /\ response' = response
           /\ total_articles' = total_articles]_vars

\* a list request in ascending order was answered and the store still is
\* what the handler read, in its own order
StoreKeptOrder ==
    /\ response.op = "list"
    /\ response.order = "asc"
    /\ response.result.status = 200
    /\ Len(response.view) >= 2
    /\ response.result.articles # <<>>
    /\ response.result.articles[1] # response.view[1]
    /\ phase = "idle"
    /\ news_storage = response.view

\* once every request is answered, the articles on display are those the
\* backend returned to the request issued last
LastRequestShown ==
    (overlapped /\ inFlight = {} /\ failed = {}) =>
        appArticles = ServerArticles(requests[Len(requests)], news_storage)

\* loading is false only when no request is in flight
LoadingWhileInFlight == inFlight # {} => loading

\* C21: after a list refresh and a search that were in flight together
\* have both been answered, the App shows the articles of the request that
\* was issued last; and loading is false only when no news or search
\* request is in flight.
RequestOrdering == LastRequestShown /\ LoadingWhileInFlight

====
